---- MODULE Spec2Model ----
(***************************************************************************)
(* CoachAI backend (src/backend/coach.py, src/backend/main.py).            *)
(*                                                                         *)
(* JSON values, as Python holds them after json.loads, are tagged records: *)
(*   None  [k |-> "null"]          bool  [k |-> "bool", b |-> TRUE]         *)
(*   int   [k |-> "num", n |-> 5]  str   [k |-> "str", s |-> "abc"]         *)
(*   list  [k |-> "list", xs |-> <<...>>]                                   *)
(*   dict  [k |-> "dict", m |-> function from its keys to values]          *)
(* A raised Python exception is the record [k |-> "raise", exc, msg].      *)
(***************************************************************************)
EXTENDS Integers, Sequences, FiniteSets, TLC

VARIABLES
    \* the service process and the request it is handling
    env,            \* process environment: GEMINI_API_KEY, and whether
                    \* google.generativeai can be imported
    server,         \* "starting" until main.py has been imported, then "serving"
    pc,             \* position in the request: "idle", "handler", "call",
                    \* "decide", "respond", "done"
    request,        \* the request being handled: endpoint, goal, qa_pairs
    oracle,         \* what model.generate_content did in this request
    oracle_calls,   \* calls of model.generate_content made by this request
    cg_data,        \* data: what call_gemini returned
    outcome,        \* what should_ask_more_questions / generate_plan returned or raised
    response,       \* the HTTP response sent
    \* one pure function applied to one input
    san_data,       \* _sanitize_plan_dict: argument data
    san_goal,       \* _sanitize_plan_dict: argument goal
    san_result,     \* _sanitize_plan_dict: value returned, or the exception raised
    ext_text,       \* extract_json: argument text
    ext_object,     \* the JSON object that ext_text was built around
    ext_result,     \* extract_json: value returned
    min_value,      \* _parse_minutes: argument value
    min_result,     \* _parse_minutes(min_value), 0 before the call
    min_text,       \* _format_hm(min_result)
    min_again,      \* _parse_minutes(min_text), 0 before the call
    stage           \* position of the function under test: "off", "call",
                    \* "parsed", "formatted" or "done"

service_vars == <<env, server, pc, request, oracle, oracle_calls, cg_data, outcome, response>>
sanitize_vars == <<san_data, san_goal, san_result>>
extract_vars == <<ext_text, ext_object, ext_result>>
minutes_vars == <<min_value, min_result, min_text, min_again>>
harness_vars == <<sanitize_vars, extract_vars, minutes_vars>>
vars == <<service_vars, harness_vars, stage>>

-----------------------------------------------------------------------------
(* Python values *)

Null == [k |-> "null"]
Bool(b) == [k |-> "bool", b |-> b]
Num(n) == [k |-> "num", n |-> n]
Str(s) == [k |-> "str", s |-> s]
List(xs) == [k |-> "list", xs |-> xs]
Dict(m) == [k |-> "dict", m |-> m]
Raise(exc, msg) == [k |-> "raise", exc |-> exc, msg |-> msg]

EmptyMap == [key \in {} |-> Null]
EmptyDict == Dict(EmptyMap)

IsDict(v) == v.k = "dict"
IsList(v) == v.k = "list"
IsStr(v) == v.k = "str"
IsRaise(v) == v.k = "raise"

\* bool(v): Python truthiness
Truthy(v) ==
    CASE v.k = "null" -> FALSE
      [] v.k = "bool" -> v.b
      [] v.k = "num"  -> v.n # 0
      [] v.k = "str"  -> v.s # ""
      [] v.k = "list" -> v.xs # <<>>
      [] v.k = "dict" -> DOMAIN v.m # {}

\* a or b
PyOr(a, b) == IF Truthy(a) THEN a ELSE b

\* d.get(key, default) on a dict d
GetDefault(d, key, default) == IF key \in DOMAIN d.m THEN d.m[key] ELSE default

\* d.get(key)
Get(d, key) == GetDefault(d, key, Null)

\* d[key] = value
SetItem(d, key, value) ==
    Dict([x \in DOMAIN d.m \cup {key} |-> IF x = key THEN value ELSE d.m[x]])

\* type(v).__name__, as it appears in a TypeError message
TypeName(v) ==
    CASE v.k = "null" -> "NoneType"
      [] v.k = "bool" -> "bool"
      [] v.k = "num"  -> "int"
      [] v.k = "str"  -> "str"
      [] v.k = "list" -> "list"
      [] v.k = "dict" -> "dict"

\* str(v) of the values a list of resources or tips holds here: scalars
\* (a container would be rendered by its repr)
PyStr(v) ==
    CASE v.k = "null" -> "None"
      [] v.k = "bool" -> (IF v.b THEN "True" ELSE "False")
      [] v.k = "num"  -> ToString(v.n)
      [] v.k = "str"  -> v.s
      [] v.k = "list" -> "[...]"
      [] v.k = "dict" -> "{...}"

RECURSIVE SetToSeq(_)
SetToSeq(S) ==
    IF S = {} THEN <<>>
    ELSE LET x == CHOOSE y \in S : TRUE IN <<x>> \o SetToSeq(S \ {x})

\* for r in v: the items a for-loop over v visits, or the TypeError it raises.
\* A list yields its items, a str its characters, a dict its keys.
Iterate(v) ==
    CASE v.k = "list" -> List(v.xs)
      [] v.k = "str"  -> List([i \in 1..Len(v.s) |-> Str(SubSeq(v.s, i, i))])
      [] v.k = "dict" -> List([i \in 1..Cardinality(DOMAIN v.m) |->
                                  Str(SetToSeq(DOMAIN v.m)[i])])
      [] OTHER        -> Raise("TypeError",
                               "'" \o TypeName(v) \o "' object is not iterable")

RECURSIVE FilterTruthy(_)
FilterTruthy(xs) ==
    IF xs = <<>> THEN <<>>
    ELSE (IF Truthy(Head(xs)) THEN <<Head(xs)>> ELSE <<>>) \o FilterTruthy(Tail(xs))

\* [str(t) for t in xs if t]
StrOfTruthy(xs) ==
    LET kept == FilterTruthy(xs)
    IN  [i \in 1..Len(kept) |-> Str(PyStr(kept[i]))]

-----------------------------------------------------------------------------
(* _sanitize_plan_dict, coach.py:131-173 *)

\* coach.py:139-145
SyntheticStep(goal) ==
    Dict([step_number |-> Num(1),
          do          |-> Str("Research and scope: " \o goal),
          why         |-> Str("Need to understand requirements before planning"),
          check       |-> Str("You have a clear breakdown of what's needed"),
          resources   |-> List(<<Str("Google"), Str("YouTube"), Str("Online forums")>>)])

\* coach.py:137-145: the steps the loop runs over
EffectiveSteps(data, goal) ==
    LET steps == Get(data, "steps")
    IN  IF ~IsList(steps) \/ Len(steps.xs) = 0
        THEN <<SyntheticStep(goal)>>
        ELSE steps.xs

\* coach.py:157
StepResources(step) ==
    LET it == Iterate(GetDefault(step, "resources", List(<<>>)))
    IN  IF IsRaise(it) THEN it
        ELSE PyOr(List(StrOfTruthy(it.xs)), List(<<Str("Online resources")>>))

\* the step_number the sanitizer gives the step at position i, coach.py:153
StepNumberTrusted(i, step) == PyOr(Get(step, "step_number"), Num(i))
StepNumber(i, step) == Num(i)

\* coach.py:149-158: one pass of the loop body
SanitizeStep(i, rawstep) ==
    LET step == IF ~IsDict(rawstep) THEN EmptyDict ELSE rawstep
        res  == StepResources(step)
    IN  IF IsRaise(res) THEN res
        ELSE Dict([step_number |-> StepNumber(i, step),
                   do          |-> PyOr(Get(step, "do"), Str("Step " \o ToString(i) \o " task")),
                   why         |-> PyOr(Get(step, "why"), Str("Important for progress")),
                   check       |-> PyOr(Get(step, "check"), Str("Verify completion")),
                   resources   |-> res])

\* coach.py:147-158: the whole loop; the first step that raises ends it
SanitizeSteps(steps) ==
    LET out == [i \in 1..Len(steps) |-> SanitizeStep(i, steps[i])]
        bad == {i \in 1..Len(steps) : IsRaise(out[i])}
    IN  IF bad # {} THEN out[CHOOSE i \in bad : \A j \in bad : i <= j]
        ELSE List(out)

FallbackTips == List(<<Str("Stay consistent"), Str("Track progress"), Str("Adjust as you learn")>>)

\* coach.py:163-167
SanitizeTips(data) ==
    LET tips0 == Get(data, "tips")
        tips1 == IF IsList(tips0) THEN List(StrOfTruthy(tips0.xs)) ELSE tips0
    IN  IF ~Truthy(tips1) THEN FallbackTips ELSE tips1

\* coach.py:131-173
_sanitize_plan_dict(data, goal) ==
    IF ~IsDict(data) THEN EmptyDict
    ELSE LET steps == SanitizeSteps(EffectiveSteps(data, goal))
         IN  IF IsRaise(steps) THEN steps
             ELSE LET d1 == SetItem(data, "steps", steps)
                      d2 == SetItem(d1, "tips", SanitizeTips(d1))
                  IN  SetItem(d2, "goal", PyOr(Get(d2, "goal"), Str(goal)))

-----------------------------------------------------------------------------
(* Inputs of the sanitizer: what json.loads can hand over *)

MaxSteps == 2

Goals == {"Learn guitar", "Run 5k"}

RawSteps ==
    { Null,
      Str("s"),
      EmptyDict,
      Dict([step_number |-> Num(7), do |-> Str("D1"), why |-> Str("W"),
            check |-> Str("C"), resources |-> List(<<Str("r1"), Num(4)>>)]),
      Dict([step_number |-> Num(1), do |-> Str("D2"), why |-> Str(""),
            check |-> Null, resources |-> List(<<>>)]),
      Dict([do |-> Str("D1"), resources |-> Null]),
      Dict([do |-> Str(""), resources |-> Str("ab")]),
      Dict([resources |-> List(<<Null, Str(""), Num(0)>>)]),
      Dict([step_number |-> Num(2), do |-> Str("D2"), resources |-> Num(3)]) }

RECURSIVE SeqsUpTo(_, _)
SeqsUpTo(S, n) ==
    IF n = 0 THEN {<<>>}
    ELSE LET shorter == SeqsUpTo(S, n - 1)
         IN  shorter \cup {Append(xs, x) : xs \in shorter, x \in S}

Absent == [k |-> "absent"]

RawStepsField ==
    {Absent, Null, Str("x"), Num(3)} \cup {List(xs) : xs \in SeqsUpTo(RawSteps, MaxSteps)}

RawTipsField ==
    { Absent, Null, Str(""), Str("be brave"), Num(0), Num(5),
      EmptyDict, Dict([a |-> Num(1)]),
      List(<<>>), List(<<Null, Str(""), Num(0)>>),
      List(<<Str("t1")>>), List(<<Str("t1"), Num(0), Num(2)>>) }

RawGoalField == {Absent, Null, Str(""), Str("Adjusted goal")}

RawOtherField == {Absent, Str("what the user typed")}

\* the dict with the given fields, a field left out when Absent
MakeDict(fields) ==
    Dict([key \in {x \in DOMAIN fields : fields[x] # Absent} |-> fields[key]])

RawDicts ==
    { MakeDict([steps |-> s, tips |-> t, goal |-> g, original_goal |-> o]) :
        s \in RawStepsField, t \in RawTipsField, g \in RawGoalField, o \in RawOtherField }

RawNonDicts == {Null, Bool(TRUE), Num(5), Str("plan"), List(<<>>), List(<<Num(1), Num(2)>>)}

RawValues == RawDicts \cup RawNonDicts

-----------------------------------------------------------------------------
(* json.loads and extract_json, coach.py:32-60.  A text is a string; Ch(t, i)
   is its i-th character, "" past the end.  The decoder covers objects,
   arrays, strings without escapes, integers and the three literals. *)

\* t[a-1:b], the characters at the indices a..b that t has
Slice(t, a, b) ==
    LET lo == IF a < 1 THEN 1 ELSE a
        hi == IF b > Len(t) THEN Len(t) ELSE b
    IN  IF lo > hi THEN "" ELSE SubSeq(t, lo, hi)

Ch(t, i) == Slice(t, i, i)

\* text[i-1:]
From(t, i) == Slice(t, i, Len(t))

\* the characters \s matches, which are also the ones json.loads skips
Whitespace == {" ", "\n", "\t", "\r"}

Digits == "0123456789"

IsDigit(c) == \E d \in 1..10 : Slice(Digits, d, d) = c

DigitVal(c) == (CHOOSE d \in 1..10 : Slice(Digits, d, d) = c) - 1

\* the first index at or after i that holds no whitespace
RECURSIVE SkipWs(_, _)
SkipWs(t, i) == IF Ch(t, i) \in Whitespace THEN SkipWs(t, i + 1) ELSE i

\* the first index at or after i that holds no digit
RECURSIVE SkipDigits(_, _)
SkipDigits(t, i) == IF IsDigit(Ch(t, i)) THEN SkipDigits(t, i + 1) ELSE i

\* int() of a run of digits
RECURSIVE IntOf(_)
IntOf(ds) ==
    IF ds = "" THEN 0
    ELSE 10 * IntOf(Slice(ds, 1, Len(ds) - 1)) + DigitVal(Slice(ds, Len(ds), Len(ds)))

\* a decoding step: the value read and the index after it, or a failure
Decoded(v, next) == [ok |-> TRUE, v |-> v, next |-> next]
DecodeError == [ok |-> FALSE, v |-> Null, next |-> 0]

\* the index of the quote that closes a string opened before i, 0 when a
\* control character or the end of the text comes first
RECURSIVE ClosingQuote(_, _)
ClosingQuote(t, i) ==
    IF i > Len(t) \/ Ch(t, i) \in {"\n", "\t", "\r"} THEN 0
    ELSE IF Ch(t, i) = "\"" THEN i
    ELSE ClosingQuote(t, i + 1)

DecodeString(t, i) ==
    LET j == ClosingQuote(t, i + 1)
    IN  IF j = 0 THEN DecodeError ELSE Decoded(Str(Slice(t, i + 1, j - 1)), j + 1)

DecodeNumber(t, i) ==
    LET neg == Ch(t, i) = "-"
        b   == IF neg THEN i + 1 ELSE i
        e   == IF Ch(t, b) = "0" THEN b + 1 ELSE SkipDigits(t, b)
    IN  IF e = b THEN DecodeError
        ELSE Decoded(Num((IF neg THEN -1 ELSE 1) * IntOf(Slice(t, b, e - 1))), e)

RECURSIVE DecodeValue(_, _), DecodeMembers(_, _, _), DecodeElements(_, _, _)

\* the value that starts at index i
DecodeValue(t, i) ==
    LET c == Ch(t, i)
    IN  CASE c = "\"" -> DecodeString(t, i)
          [] c = "{" ->
                (LET j == SkipWs(t, i + 1)
                 IN  IF Ch(t, j) = "}" THEN Decoded(EmptyDict, j + 1)
                     ELSE DecodeMembers(t, j, EmptyMap))
          [] c = "[" ->
                (LET j == SkipWs(t, i + 1)
                 IN  IF Ch(t, j) = "]" THEN Decoded(List(<<>>), j + 1)
                     ELSE DecodeElements(t, j, <<>>))
          [] c = "-" \/ IsDigit(c) -> DecodeNumber(t, i)
          [] c = "n" /\ Slice(t, i, i + 3) = "null" -> Decoded(Null, i + 4)
          [] c = "t" /\ Slice(t, i, i + 3) = "true" -> Decoded(Bool(TRUE), i + 4)
          [] c = "f" /\ Slice(t, i, i + 4) = "false" -> Decoded(Bool(FALSE), i + 5)
          [] OTHER -> DecodeError

\* the members of an object from index i on, seen the members read so far
DecodeMembers(t, i, seen) ==
    IF Ch(t, i) # "\"" THEN DecodeError
    ELSE LET key == DecodeString(t, i)
         IN  IF ~key.ok THEN DecodeError
             ELSE LET colon == SkipWs(t, key.next)
                  IN  IF Ch(t, colon) # ":" THEN DecodeError
                      ELSE LET val == DecodeValue(t, SkipWs(t, colon + 1))
                           IN  IF ~val.ok THEN DecodeError
                               ELSE LET all == SetItem(Dict(seen), key.v.s, val.v).m
                                        j   == SkipWs(t, val.next)
                                    IN  IF Ch(t, j) = "}" THEN Decoded(Dict(all), j + 1)
                                        ELSE IF Ch(t, j) = ","
                                             THEN DecodeMembers(t, SkipWs(t, j + 1), all)
                                             ELSE DecodeError

\* the elements of an array from index i on
DecodeElements(t, i, seen) ==
    LET val == DecodeValue(t, i)
    IN  IF ~val.ok THEN DecodeError
        ELSE LET all == Append(seen, val.v)
                 j   == SkipWs(t, val.next)
             IN  IF Ch(t, j) = "]" THEN Decoded(List(all), j + 1)
                 ELSE IF Ch(t, j) = ","
                      THEN DecodeElements(t, SkipWs(t, j + 1), all)
                      ELSE DecodeError

\* json.loads(t): the whole of t is one value between whitespace, or it raises
json_loads(t) ==
    LET val == DecodeValue(t, SkipWs(t, 1))
    IN  IF val.ok /\ SkipWs(t, val.next) = Len(t) + 1 THEN val ELSE DecodeError

\* A TLA+ string cannot hold a backquote: "~" stands for it in every text.
Backquote == "~"

Fence == Backquote \o Backquote \o Backquote

\* coach.py:37, first alternative: the end of a match of ^\s*~~~(?:json)?\s*
\* at the start of t, 0 when there is none
LeadingFenceEnd(t) ==
    LET f == SkipWs(t, 1)
    IN  IF Slice(t, f, f + 2) # Fence THEN 0
        ELSE LET j == IF Slice(t, f + 3, f + 6) = "json" THEN f + 7 ELSE f + 3
             IN  SkipWs(t, j) - 1

\* the start of the whitespace run that ends right before index i
RECURSIVE WsRunStart(_, _, _)
WsRunStart(t, i, low) ==
    IF i - 1 >= low /\ Ch(t, i - 1) \in Whitespace THEN WsRunStart(t, i - 1, low) ELSE i

\* the start of the trailing whitespace of t
TrailingWsStart(t) == WsRunStart(t, Len(t) + 1, 1)

\* coach.py:37: re.sub(r'^\s*~~~(?:json)?\s*|\s*~~~\s*$', '', text, flags=re.S)
StripFences(t) ==
    LET lead == LeadingFenceEnd(t)
        rest == From(t, lead + 1)
        f    == TrailingWsStart(rest) - 3
    IN  IF f >= 1 /\ Slice(rest, f, f + 2) = Fence
        THEN Slice(rest, 1, WsRunStart(rest, f, 1) - 1)
        ELSE rest

\* coach.py:45-58: one pass of the scan for the pair open/close, from index i
\* with the depth and start it has reached (start 0 is None)
RECURSIVE ScanSpans(_, _, _, _, _, _)
ScanSpans(t, open_ch, close_ch, i, depth, start) ==
    IF i > Len(t) THEN DecodeError
    ELSE IF Ch(t, i) = open_ch
         THEN ScanSpans(t, open_ch, close_ch, i + 1, depth + 1,
                        IF depth = 0 THEN i ELSE start)
         ELSE IF Ch(t, i) = close_ch /\ depth # 0
              THEN IF depth - 1 = 0 /\ start # 0
                   THEN LET span == json_loads(Slice(t, start, i))
                        IN  IF span.ok THEN span
                            ELSE ScanSpans(t, open_ch, close_ch, i + 1, 0, start)
                   ELSE ScanSpans(t, open_ch, close_ch, i + 1, depth - 1, start)
              ELSE ScanSpans(t, open_ch, close_ch, i + 1, depth, start)

\* coach.py:32-60: the value extract_json returns, None as Null
extract_json(text) ==
    IF text = "" THEN Null
    ELSE LET t      == StripFences(text)
             whole  == json_loads(t)
             braces == ScanSpans(t, "{", "}", 1, 0, 0)
             bracks == ScanSpans(t, "[", "]", 1, 0, 0)
         IN  IF whole.ok THEN whole.v
             ELSE IF braces.ok THEN braces.v
             ELSE IF bracks.ok THEN bracks.v
             ELSE Null

-----------------------------------------------------------------------------
(* _parse_minutes and _format_hm, coach.py:94-128 *)

UpperCase == "ABCDEFGHIJKLMNOPQRSTUVWXYZ"
LowerCase == "abcdefghijklmnopqrstuvwxyz"

\* str.lower()
RECURSIVE Lower(_)
Lower(s) ==
    IF s = "" THEN ""
    ELSE LET c == Ch(s, 1)
             u == {i \in 1..26 : Slice(UpperCase, i, i) = c}
         IN  (IF u = {} THEN c ELSE LET i == CHOOSE j \in u : TRUE IN Slice(LowerCase, i, i))
                 \o Lower(From(s, 2))

\* str.strip()
Strip(s) ==
    LET i == SkipWs(s, 1)
    IN  Slice(s, i, WsRunStart(s, Len(s) + 1, i) - 1)

\* c in s
Contains(s, c) == \E i \in 1..Len(s) : Ch(s, i) = c

\* the indices where a match of (\d+)\s*unit can start
UnitMatches(s, unit) ==
    {i \in 1..Len(s) : IsDigit(Ch(s, i)) /\ Ch(s, SkipWs(s, SkipDigits(s, i))) = unit}

\* re.search(r'(\d+)\s*unit', s): group 1 of the leftmost match, "" for no match
SearchUnit(s, unit) ==
    LET at == UnitMatches(s, unit)
    IN  IF at = {} THEN ""
        ELSE LET i == CHOOSE j \in at : \A l \in at : j <= l
             IN  Slice(s, i, SkipDigits(s, i) - 1)

\* re.findall(r'\d+', s): its first item, "" when the list is empty
FirstDigits(s) ==
    LET at == {i \in 1..Len(s) : IsDigit(Ch(s, i))}
    IN  IF at = {} THEN ""
        ELSE LET i == CHOOSE j \in at : \A l \in at : j <= l
             IN  Slice(s, i, SkipDigits(s, i) - 1)

RECURSIVE Pow10(_)
Pow10(n) == IF n <= 0 THEN 1 ELSE 10 * Pow10(n - 1)

\* int(float(s)) for a stripped s: [sign] digits [. digits] [e [sign] digits],
\* with a digit before or after the point; anything else raises ValueError
\* (or, for inf, OverflowError)
IntOfFloat(s) ==
    LET signed == Ch(s, 1) \in {"-", "+"}
        neg    == Ch(s, 1) = "-"
        b      == IF signed THEN 2 ELSE 1
        ie     == SkipDigits(s, b)
        point  == Ch(s, ie) = "."
        fb     == IF point THEN ie + 1 ELSE ie
        fe     == SkipDigits(s, fb)
        expo   == Ch(s, fe) = "e"
        esign  == expo /\ Ch(s, fe + 1) \in {"-", "+"}
        eb     == IF expo THEN (IF esign THEN fe + 2 ELSE fe + 1) ELSE fe
        ee     == SkipDigits(s, eb)
        digits == Slice(s, b, ie - 1) \o Slice(s, fb, fe - 1)
        e10    == (IF Ch(s, fe + 1) = "-" THEN -1 ELSE 1) * IntOf(Slice(s, eb, ee - 1))
        scale  == (IF expo THEN e10 ELSE 0) - (fe - fb)
        mag    == IF scale >= 0 THEN IntOf(digits) * Pow10(scale)
                  ELSE IntOf(digits) \div Pow10(-scale)
    IN  IF digits = "" \/ (expo /\ ee = eb) \/ ee # Len(s) + 1
        THEN [ok |-> FALSE, n |-> 0]
        ELSE [ok |-> TRUE, n |-> IF neg THEN -mag ELSE mag]

\* max(1, n)
AtLeastOne(n) == IF n < 1 THEN 1 ELSE n

\* coach.py:100-117: the str branch
ParseMinutesStr(value) ==
    LET s == Lower(Strip(value))
    IN  IF Contains(s, "h") \/ Contains(s, "m")
        THEN LET h      == SearchUnit(s, "h")
                 m      == SearchUnit(s, "m")
                 hours  == IF h # "" THEN IntOf(h) ELSE 0
                 digits == FirstDigits(s)
                 mins   == IF m # "" THEN IntOf(m)
                           ELSE IF h = "" /\ digits # "" THEN IntOf(digits)
                           ELSE 0
             IN  AtLeastOne(hours * 60 + mins)
        ELSE LET f == IntOfFloat(s)
             IN  IF f.ok THEN AtLeastOne(f.n) ELSE 60

\* coach.py:94-118
_parse_minutes(value) ==
    CASE value.k = "null" -> 60
      [] value.k = "num"  -> AtLeastOne(value.n)
      [] value.k = "bool" -> AtLeastOne(IF value.b THEN 1 ELSE 0)
      [] value.k = "str"  -> ParseMinutesStr(value.s)
      [] OTHER            -> 60

\* coach.py:121-128 with the unit of the minutes left off after the hours
_format_hm_bare_minutes(total_minutes) ==
    LET total == IF total_minutes < 0 THEN 0 ELSE total_minutes
        h     == total \div 60
        m     == total % 60
    IN  IF h > 0 /\ m > 0 THEN ToString(h) \o "h " \o ToString(m)
        ELSE IF h > 0 THEN ToString(h) \o "h"
        ELSE ToString(m) \o "m"

\* coach.py:121-128
_format_hm(total_minutes) ==
    LET total == IF total_minutes < 0 THEN 0 ELSE total_minutes
        h     == total \div 60
        m     == total % 60
    IN  IF h > 0 /\ m > 0 THEN ToString(h) \o "h " \o ToString(m) \o "m"
        ELSE IF h > 0 THEN ToString(h) \o "h"
        ELSE ToString(m) \o "m"

-----------------------------------------------------------------------------
(* The service: main.py's endpoints over coach.py's two entry points *)

Pending == [k |-> "pending"]

\* coach.py:187
max_questions == 10

MaxHistory == 11

QA == [question |-> "How much time do you have?", answer |-> "Two weeks"]

Histories == {[i \in 1..n |-> QA] : n \in 0..MaxHistory}

Requests == [endpoint : {"clarify", "continue", "plan"}, goal : Goals, qa_pairs : Histories]

Environments == [api_key : {Null, Str(""), Str("secret")}, genai : BOOLEAN]

\* coach.py:16-29, without the credential test of lines 24-25
setup_gemini_unchecked(e) ==
    IF ~e.genai THEN Raise("RuntimeError", "Run: pip install google-generativeai")
    ELSE [k |-> "model", name |-> "gemini-2.0-flash-exp"]

\* coach.py:16-29: the model, or the RuntimeError raised
setup_gemini(e) ==
    IF ~e.genai THEN Raise("RuntimeError", "Run: pip install google-generativeai")
    ELSE IF ~Truthy(e.api_key)
         THEN Raise("RuntimeError", "Set GEMINI_API_KEY environment variable")
         ELSE [k |-> "model", name |-> "gemini-2.0-flash-exp"]

\* What extract_json can yield from a response text: None (no value found, or
\* the JSON text null) or any JSON value.
ExtractedValues ==
    { Null, Bool(FALSE), Num(0), Str(""), List(<<>>), EmptyDict,
      Bool(TRUE), Num(5), Str("ready"), List(<<Str("ask")>>),
      Dict([action |-> Str("ask"), question |-> Str("X"), reasoning |-> Str("need it")]),
      Dict([action |-> Str("ready"), question |-> Null, reasoning |-> Str("enough")]),
      Dict([action |-> Str("ask")]),
      Dict([action |-> Str("ask"), question |-> Null]),
      Dict([action |-> Str("maybe"), question |-> Str("X")]),
      Dict([question |-> Str("X"), reasoning |-> Str("need it")]),
      Dict([goal |-> Str("Adjusted goal"), original_goal |-> Str("what the user typed"),
            steps |-> List(<<Dict([step_number |-> Num(7), do |-> Str("D1"), why |-> Str("W"),
                                   check |-> Str("C"), resources |-> List(<<Str("r1")>>)]),
                             Dict([do |-> Str("D2")])>>),
            tips |-> List(<<Str("t1"), Str("t2")>>)]),
      Dict([steps |-> List(<<Dict([do |-> Str("D1"), resources |-> Null])>>)]),
      Dict([tips |-> Str("be brave")]) }

\* model.generate_content raised, or returned a response from whose text
\* extract_json yields extracted
OracleOutcomes ==
    {[kind |-> "raise", extracted |-> Null]}
        \cup {[kind |-> "text", extracted |-> v] : v \in ExtractedValues}

NoOracle == [kind |-> "none", extracted |-> Null]

\* coach.py:63-87, without the truthiness test of line 75
call_gemini_unfiltered(o) ==
    IF o.kind = "raise" THEN Null ELSE o.extracted

\* coach.py:63-87: the value call_gemini returns
call_gemini(o) ==
    IF o.kind = "raise" THEN Null
    ELSE IF Truthy(o.extracted) THEN o.extracted ELSE Null

\* coach.py:222, with > for >=
CapReachedLate(n) == n > max_questions

\* coach.py:222
CapReached(n) == n >= max_questions

\* coach.py:213-229: what should_ask_more_questions returns once call_gemini
\* has returned d
should_ask_more_questions(d, qa_pairs) ==
    IF ~Truthy(d) \/ ~IsDict(d)
    THEN Dict([action    |-> Str("ready"),
               question  |-> Null,
               reasoning |-> Str("Fallback - proceeding with available information")])
    ELSE IF CapReached(Len(qa_pairs))
         THEN Dict([action    |-> Str("ready"),
                    question  |-> Null,
                    reasoning |-> Str("Reached maximum of " \o ToString(max_questions)
                                          \o " questions")])
         ELSE d

\* coach.py:323-333
FallbackPlan(goal) ==
    Dict([goal  |-> Str(goal),
          steps |-> List(<<Dict([
              step_number |-> Num(1),
              do          |-> Str("Research and break down what's needed for: " \o goal),
              why         |-> Str("Need to understand requirements before taking action"),
              check       |-> Str("You have a clear list of what needs to be built/learned/done"),
              resources   |-> List(<<Str("Google search"), Str("YouTube tutorials"),
                                     Str("Relevant online communities")>>)])>>),
          tips  |-> List(<<Str("Start with small wins"), Str("Track your progress"),
                           Str("Adjust approach based on what you learn")>>)])

\* coach.py:321-335: what generate_plan returns (or raises) once call_gemini
\* has returned d
generate_plan(d, goal) ==
    IF ~Truthy(d) THEN FallbackPlan(goal) ELSE _sanitize_plan_dict(d, goal)

(* HTTP responses: [status, body]; FastAPI validates what a handler returns
   against the endpoint's response_model and answers 500 when it does not fit *)

NoResponse == [status |-> 0, body |-> Null]

Http(status, body) == [status |-> status, body |-> body]

ValidationFailure == Http(500, Str("Internal Server Error"))

HasType(d, key, kinds) == key \in DOMAIN d.m /\ d.m[key].k \in kinds

OptionalOf(d, key, kinds) == key \notin DOMAIN d.m \/ d.m[key].k \in (kinds \cup {"null"})

AllStr(v) == IsList(v) /\ \A i \in 1..Len(v.xs) : IsStr(v.xs[i])

\* main.py:80-83
ContinueResponse(d) ==
    /\ IsDict(d)
    /\ HasType(d, "action", {"str"})
    /\ OptionalOf(d, "question", {"str"})
    /\ OptionalOf(d, "reasoning", {"str"})

\* main.py:51-56
Step(st) ==
    /\ IsDict(st)
    /\ HasType(st, "step_number", {"num"})
    /\ HasType(st, "do", {"str"})
    /\ HasType(st, "why", {"str"})
    /\ HasType(st, "check", {"str"})
    /\ "resources" \in DOMAIN st.m
    /\ AllStr(st.m.resources)

\* main.py:58-73
PlanResponse(d) ==
    /\ IsDict(d)
    /\ HasType(d, "goal", {"str"})
    /\ HasType(d, "steps", {"list"})
    /\ \A i \in 1..Len(d.m.steps.xs) : Step(d.m.steps.xs[i])
    /\ "tips" \in DOMAIN d.m
    /\ AllStr(d.m.tips)
    /\ OptionalOf(d, "original_goal", {"str"})
    /\ OptionalOf(d, "goal_changed_reason", {"str"})
    /\ OptionalOf(d, "total_minutes_calculated", {"num"})
    /\ OptionalOf(d, "user_requested_hours", {"num"})
    /\ OptionalOf(d, "realistic_hours_needed", {"num", "str"})
    /\ OptionalOf(d, "timeline_adjusted", {"bool"})
    /\ OptionalOf(d, "adjustment_explanation", {"str"})
    /\ OptionalOf(d, "realistic_goal_level", {"str"})

\* the response body: the model's fields, an unset optional one as None
Fields(d, names) == Dict([key \in names |-> Get(d, key)])

ContinueFields == {"action", "question", "reasoning"}

PlanFields ==
    {"goal", "steps", "tips", "original_goal", "goal_changed_reason",
     "total_minutes_calculated", "user_requested_hours", "realistic_hours_needed",
     "timeline_adjusted", "adjustment_explanation", "realistic_goal_level"}

\* main.py:94-102
clarify ==
    Http(200, Dict([questions |-> List(<<Str(
        "How much time do you have to achieve this goal? (e.g., '5 days', '3 months', '2 hours per week for 6 months')")>>)]))

\* main.py:116-120
ContinueErrorBody ==
    Dict([action    |-> Str("ready"),
          question  |-> Null,
          reasoning |-> Str("Error occurred, proceeding with available information")])

\* main.py:104-120 with the except clause of /api/plan
continue_conversation_http500(result) ==
    IF IsRaise(result) THEN Http(500, Dict([detail |-> Str(result.msg)]))
    ELSE IF ContinueResponse(result) THEN Http(200, Fields(result, ContinueFields))
         ELSE ValidationFailure

\* main.py:104-120: the response to /api/continue when
\* should_ask_more_questions returned or raised result
continue_conversation(result) ==
    LET returned == IF IsRaise(result) THEN ContinueErrorBody ELSE result
    IN  IF ContinueResponse(returned) THEN Http(200, Fields(returned, ContinueFields))
        ELSE ValidationFailure

\* main.py:123-131: the response to /api/plan when generate_plan returned or
\* raised result
plan(result) ==
    IF IsRaise(result) THEN Http(500, Dict([detail |-> Str(result.msg)]))
    ELSE IF PlanResponse(result) THEN Http(200, Fields(result, PlanFields))
         ELSE ValidationFailure

ServiceOff ==
    /\ env = [api_key |-> Null, genai |-> FALSE]
    /\ server = "off"
    /\ pc = "idle"
    /\ request = [endpoint |-> "none", goal |-> "", qa_pairs |-> <<>>]
    /\ oracle = NoOracle
    /\ oracle_calls = 0
    /\ cg_data = Pending
    /\ outcome = Pending
    /\ response = NoResponse

SanitizeOff ==
    /\ san_data = Null
    /\ san_goal = ""
    /\ san_result = Pending

ExtractOff ==
    /\ ext_text = ""
    /\ ext_object = Null
    /\ ext_result = Pending

MinutesOff ==
    /\ min_value = Null
    /\ min_result = 0
    /\ min_text = ""
    /\ min_again = 0

Init ==
    /\ env \in Environments
    /\ server = "starting"
    /\ pc = "idle"
    /\ request = [endpoint |-> "none", goal |-> "", qa_pairs |-> <<>>]
    /\ oracle = NoOracle
    /\ oracle_calls = 0
    /\ cg_data = Pending
    /\ outcome = Pending
    /\ response = NoResponse
    /\ SanitizeOff
    /\ ExtractOff
    /\ MinutesOff
    /\ stage = "off"

\* main.py:6-31: importing main.py builds the app; nothing reads GEMINI_API_KEY
Startup ==
    /\ server = "starting"
    /\ server' = "serving"
    /\ UNCHANGED <<env, pc, request, oracle, oracle_calls, cg_data, outcome, response>>
    /\ UNCHANGED <<harness_vars, stage>>

\* a request reaches one of the three POST endpoints
Receive ==
    /\ server = "serving"
    /\ pc \in {"idle", "done"}
    /\ \E r \in Requests : request' = r
    /\ pc' = "handler"
    /\ oracle' = NoOracle
    /\ oracle_calls' = 0
    /\ cg_data' = Pending
    /\ outcome' = Pending
    /\ response' = NoResponse
    /\ UNCHANGED <<env, server, harness_vars, stage>>

\* main.py:94-102
Clarify ==
    /\ pc = "handler"
    /\ request.endpoint = "clarify"
    /\ response' = clarify
    /\ pc' = "done"
    /\ UNCHANGED <<env, server, request, oracle, oracle_calls, cg_data, outcome>>
    /\ UNCHANGED <<harness_vars, stage>>

\* coach.py:183 and coach.py:234: both entry points begin with setup_gemini()
SetupGemini ==
    /\ pc = "handler"
    /\ request.endpoint \in {"continue", "plan"}
    /\ LET m == setup_gemini(env)
       IN  IF IsRaise(m)
           THEN outcome' = m /\ pc' = "respond"
           ELSE outcome' = outcome /\ pc' = "call"
    /\ UNCHANGED <<env, server, request, oracle, oracle_calls, cg_data, response>>
    /\ UNCHANGED <<harness_vars, stage>>

\* coach.py:211 and coach.py:319, calling call_gemini again while it returns
\* None
CallGeminiRetry ==
    /\ pc = "call"
    /\ \E o \in OracleOutcomes :
          /\ oracle' = o
          /\ cg_data' = call_gemini(o)
          /\ pc' = IF call_gemini(o) = Null THEN "call" ELSE "decide"
    /\ oracle_calls' = oracle_calls + 1
    /\ UNCHANGED <<env, server, request, outcome, response>>
    /\ UNCHANGED <<harness_vars, stage>>

\* coach.py:211 and coach.py:319: the one call of call_gemini
CallGemini ==
    /\ pc = "call"
    /\ \E o \in OracleOutcomes :
          /\ oracle' = o
          /\ cg_data' = call_gemini(o)
    /\ oracle_calls' = oracle_calls + 1
    /\ pc' = "decide"
    /\ UNCHANGED <<env, server, request, outcome, response>>
    /\ UNCHANGED <<harness_vars, stage>>

\* coach.py:213-229
ShouldAskReturn ==
    /\ pc = "decide"
    /\ request.endpoint = "continue"
    /\ outcome' = should_ask_more_questions(cg_data, request.qa_pairs)
    /\ pc' = "respond"
    /\ UNCHANGED <<env, server, request, oracle, oracle_calls, cg_data, response>>
    /\ UNCHANGED <<harness_vars, stage>>

\* coach.py:321-335
GeneratePlanReturn ==
    /\ pc = "decide"
    /\ request.endpoint = "plan"
    /\ outcome' = generate_plan(cg_data, request.goal)
    /\ pc' = "respond"
    /\ UNCHANGED <<env, server, request, oracle, oracle_calls, cg_data, response>>
    /\ UNCHANGED <<harness_vars, stage>>

\* main.py:104-120
ContinueRespond ==
    /\ pc = "respond"
    /\ request.endpoint = "continue"
    /\ response' = continue_conversation(outcome)
    /\ pc' = "done"
    /\ UNCHANGED <<env, server, request, oracle, oracle_calls, cg_data, outcome>>
    /\ UNCHANGED <<harness_vars, stage>>

\* main.py:123-131
PlanRespond ==
    /\ pc = "respond"
    /\ request.endpoint = "plan"
    /\ response' = plan(outcome)
    /\ pc' = "done"
    /\ UNCHANGED <<env, server, request, oracle, oracle_calls, cg_data, outcome>>
    /\ UNCHANGED <<harness_vars, stage>>

Next ==
    \/ Startup
    \/ Receive
    \/ Clarify
    \/ SetupGemini
    \/ CallGemini
    \/ ShouldAskReturn
    \/ GeneratePlanReturn
    \/ ContinueRespond
    \/ PlanRespond

Spec == Init /\ [][Next]_vars

-----------------------------------------------------------------------------
(* The sanitizer applied to one input *)

InitSanitize ==
    /\ ServiceOff
    /\ ExtractOff
    /\ MinutesOff
    /\ san_data \in RawValues
    /\ san_goal \in Goals
    /\ san_result = Pending
    /\ stage = "call"

Sanitize ==
    /\ stage = "call"
    /\ san_result' = _sanitize_plan_dict(san_data, san_goal)
    /\ stage' = "done"
    /\ UNCHANGED <<san_data, san_goal, service_vars, extract_vars, minutes_vars>>

NextSanitize == Sanitize

SpecSanitize == InitSanitize /\ [][NextSanitize]_vars

-----------------------------------------------------------------------------
(* extract_json applied to one text: a JSON object, perhaps inside a code
   fence, with prose before and after it *)

MaxProseBefore == 2
MaxProseAfter == 1

ProseChars == {"a", " ", "{", "}", "["}

RECURSIVE StringsUpTo(_, _)
StringsUpTo(chars, n) ==
    IF n = 0 THEN {""}
    ELSE LET shorter == StringsUpTo(chars, n - 1)
         IN  shorter \cup {p \o c : p \in shorter, c \in chars}

\* no part of p is itself a JSON object
HoldsNoObject(p) ==
    \A i \in 1..Len(p) : \A j \in i..Len(p) :
        LET part == json_loads(Slice(p, i, j)) IN ~(part.ok /\ IsDict(part.v))

Prose(n) == {p \in StringsUpTo(ProseChars, n) : HoldsNoObject(p)}

\* objects as the oracle may write them, each with the value it denotes
Objects ==
    { [text |-> "{\"a\":1}",           value |-> Dict([a |-> Num(1)])],
      [text |-> "{ \"a\" : [1, 2] }",  value |-> Dict([a |-> List(<<Num(1), Num(2)>>)])],
      [text |-> "{\"a\":{\"b\":10}}",  value |-> Dict([a |-> Dict([b |-> Num(10)])])],
      [text |-> "{\"a\":\"}\"}",       value |-> Dict([a |-> Str("}")])],
      [text |-> "{\"a\":\"{x\"}",      value |-> Dict([a |-> Str("{x")])] }

FenceOpeners == {"", Fence \o "json\n", Fence \o "\n"}
FenceClosers == {"", "\n" \o Fence}

InitExtract ==
    /\ ServiceOff
    /\ SanitizeOff
    /\ MinutesOff
    /\ \E before \in Prose(MaxProseBefore), after \in Prose(MaxProseAfter),
          o \in Objects, open \in FenceOpeners, close \in FenceClosers :
          /\ ext_text = before \o open \o o.text \o close \o after
          /\ ext_object = o.value
    /\ ext_result = Pending
    /\ stage = "call"

Extract ==
    /\ stage = "call"
    /\ ext_result' = extract_json(ext_text)
    /\ stage' = "done"
    /\ UNCHANGED <<ext_text, ext_object, service_vars, sanitize_vars, minutes_vars>>

NextExtract == Extract

SpecExtract == InitExtract /\ [][NextExtract]_vars

-----------------------------------------------------------------------------
(* _parse_minutes applied to one value, its result formatted by _format_hm
   and parsed again *)

MaxMinutes == 125
MaxText == 4

MinuteChars == {"0", "1", "5", "h", "m", "H", " ", ".", "-"}

Examples ==
    {"2h 30m", "90", "1.5", "garbage", "hmm", "half an hour", "2 hours 15 min",
     "1h30", "45 minutes", "1e2", "  90  "}

MinuteValues ==
    {Null, Bool(TRUE), Bool(FALSE), List(<<>>), EmptyDict}
        \cup {Num(n) : n \in -2..MaxMinutes}
        \cup {Str(s) : s \in StringsUpTo(MinuteChars, MaxText) \cup Examples}

InitMinutes ==
    /\ ServiceOff
    /\ SanitizeOff
    /\ ExtractOff
    /\ min_value \in MinuteValues
    /\ min_result = 0
    /\ min_text = ""
    /\ min_again = 0
    /\ stage = "call"

ParseMinutes ==
    /\ stage = "call"
    /\ min_result' = _parse_minutes(min_value)
    /\ stage' = "parsed"
    /\ UNCHANGED <<min_value, min_text, min_again, service_vars, sanitize_vars, extract_vars>>

FormatMinutes ==
    /\ stage = "parsed"
    /\ min_text' = _format_hm(min_result)
    /\ stage' = "formatted"
    /\ UNCHANGED <<min_value, min_result, min_again, service_vars, sanitize_vars, extract_vars>>

ParseAgain ==
    /\ stage = "formatted"
    /\ min_again' = _parse_minutes(Str(min_text))
    /\ stage' = "done"
    /\ UNCHANGED <<min_value, min_result, min_text, service_vars, sanitize_vars, extract_vars>>

NextMinutes ==
    \/ ParseMinutes
    \/ FormatMinutes
    \/ ParseAgain

SpecMinutes == InitMinutes /\ [][NextMinutes]_vars

-----------------------------------------------------------------------------
(* Claims about _sanitize_plan_dict, checked under SpecSanitize *)

IsNonEmptyStr(v) == IsStr(v) /\ v.s # ""

\* a Step of the plan schema with every field filled
ValidStep(st) ==
    /\ IsDict(st)
    /\ {"step_number", "do", "why", "check", "resources"} \subseteq DOMAIN st.m
    /\ st.m.step_number.k = "num"
    /\ IsNonEmptyStr(st.m.do)
    /\ IsNonEmptyStr(st.m.why)
    /\ IsNonEmptyStr(st.m.check)
    /\ IsList(st.m.resources)
    /\ st.m.resources.xs # <<>>
    /\ \A i \in 1..Len(st.m.resources.xs) : IsStr(st.m.resources.xs[i])

\* a Plan of the plan schema: goal, non-empty steps, non-empty tips
ValidPlan(p) ==
    /\ IsDict(p)
    /\ {"goal", "steps", "tips"} \subseteq DOMAIN p.m
    /\ IsStr(p.m.goal)
    /\ IsList(p.m.steps)
    /\ p.m.steps.xs # <<>>
    /\ \A i \in 1..Len(p.m.steps.xs) : ValidStep(p.m.steps.xs[i])
    /\ IsList(p.m.tips)
    /\ p.m.tips.xs # <<>>
    /\ \A i \in 1..Len(p.m.tips.xs) : IsNonEmptyStr(p.m.tips.xs[i])

\* C1: for every raw JSON value, _sanitize_plan_dict returns without raising
\* and what it returns is a schema-valid Plan (goal, non-empty steps with every
\* field filled, non-empty tips).
C1_SanitizeTotalAndValid ==
    stage = "done" => (~IsRaise(san_result) /\ ValidPlan(san_result))

\* the sanitizer returned a plan for a raw mapping
SanitizedMapping ==
    /\ stage = "done"
    /\ IsDict(san_data)
    /\ ~IsRaise(san_result)

\* C2: for every raw mapping the returned steps are numbered 1..N in list
\* order, N the length of the (possibly substituted) steps list; the oracle's
\* own step_number is discarded and the number and order of steps is kept.
C2_StepNumbersDense ==
    SanitizedMapping =>
        LET given == Get(san_data, "steps")
            kept  == IsList(given) /\ given.xs # <<>>
            N     == IF kept THEN Len(given.xs) ELSE 1
            out   == san_result.m.steps.xs
        IN  /\ Len(out) = N
            /\ \A i \in 1..N : out[i].m.step_number = Num(i)
            /\ kept => \A i \in 1..N :
                   (IsDict(given.xs[i]) /\ Truthy(Get(given.xs[i], "do")))
                       => out[i].m.do = Get(given.xs[i], "do")

\* C2's case: two oracle steps, one carrying a step_number that is not its position
C2_Witness ==
    /\ SanitizedMapping
    /\ IsList(Get(san_data, "steps"))
    /\ Len(Get(san_data, "steps").xs) = 2
    /\ \E i \in 1..2 :
          LET st == Get(san_data, "steps").xs[i]
          IN  IsDict(st) /\ Truthy(Get(st, "step_number")) /\ Get(st, "step_number") # Num(i)
    /\ Get(san_data, "steps").xs[1] # Get(san_data, "steps").xs[2]

\* C3: the returned tips are the truthy entries of raw tips as strings when raw
\* tips is a sequence with a truthy entry, and the fixed three-item fallback in
\* every other case, a raw tips that is no sequence included.
C3_TipsListOrFallback ==
    SanitizedMapping =>
        LET given == Get(san_data, "tips")
        IN  san_result.m.tips =
                IF IsList(given) /\ StrOfTruthy(given.xs) # <<>>
                THEN List(StrOfTruthy(given.xs))
                ELSE FallbackTips

-----------------------------------------------------------------------------
(* Claims about the service, checked under Spec *)

\* should_ask_more_questions has returned, its oracle call made
ShouldAskReturned ==
    /\ request.endpoint = "continue"
    /\ pc \in {"respond", "done"}
    /\ oracle_calls = 1

\* C4: with 10 or more question/answer pairs should_ask_more_questions
\* returns action "ready" and question null whatever the oracle did: transport
\* failure, unparseable text, a non-mapping, a mapping saying "ask" or "ready".
C4_CapForcesReady ==
    (ShouldAskReturned /\ Len(request.qa_pairs) >= 10) =>
        /\ IsDict(outcome)
        /\ {"action", "question"} \subseteq DOMAIN outcome.m
        /\ outcome.m.action = Str("ready")
        /\ outcome.m.question = Null

\* C4's case: ten pairs answered and the oracle asks for one more
C4_Witness ==
    /\ ShouldAskReturned
    /\ Len(request.qa_pairs) = 10
    /\ oracle.kind = "text"
    /\ IsDict(oracle.extracted)
    /\ Get(oracle.extracted, "action") = Str("ask")
    /\ Get(oracle.extracted, "question") = Str("X")

\* a ContinueDecision: Ask(question, reasoning) or Ready(reasoning)
WellFormedDecision(d) ==
    /\ IsDict(d)
    /\ Get(d, "action") \in {Str("ask"), Str("ready")}
    /\ Get(d, "action") = Str("ask") => IsStr(Get(d, "question"))

\* C5: every value should_ask_more_questions returns, and so every /continue
\* response body, is a well-formed decision: action is "ask" or "ready", and
\* an "ask" carries a question string.
C5_DecisionWellFormed ==
    /\ (request.endpoint = "continue" /\ pc \in {"respond", "done"} /\ ~IsRaise(outcome))
           => WellFormedDecision(outcome)
    /\ (request.endpoint = "continue" /\ pc = "done" /\ response.status = 200)
           => WellFormedDecision(response.body)

\* generate_plan has returned or raised, its oracle call made
GeneratePlanReturned ==
    /\ request.endpoint = "plan"
    /\ pc \in {"respond", "done"}
    /\ oracle_calls = 1

\* C6: generate_plan returns the exact fixed fallback plan (the input goal, one
\* research step numbered 1, three tips) when call_gemini returned None, and
\* otherwise exactly _sanitize_plan_dict(raw, goal) for the raw value
\* call_gemini returned.
C6_PlanFallbackOrSanitized ==
    GeneratePlanReturned =>
        IF cg_data = Null
        THEN /\ outcome = FallbackPlan(request.goal)
             /\ outcome.m.goal = Str(request.goal)
             /\ Len(outcome.m.steps.xs) = 1
             /\ outcome.m.steps.xs[1].m.step_number = Num(1)
             /\ Len(outcome.m.tips.xs) = 3
        ELSE outcome = _sanitize_plan_dict(cg_data, request.goal)

\* C6's case: the oracle's plan went through the sanitizer
C6_Witness ==
    /\ GeneratePlanReturned
    /\ IsDict(cg_data)
    /\ IsDict(outcome)
    /\ outcome # FallbackPlan(request.goal)
    /\ Len(outcome.m.steps.xs) = 2

\* a /continue or /plan request has been answered
Answered ==
    /\ request.endpoint \in {"continue", "plan"}
    /\ pc = "done"

OracleFailed ==
    \/ oracle.kind = "raise"
    \/ oracle.kind = "text" /\ oracle.extracted = Null

OracleCallFailed ==
    /\ request.endpoint \in {"continue", "plan"}
    /\ pc \in {"decide", "respond", "done"}
    /\ cg_data = Null

\* the value should_ask_more_questions falls back to
FallbackDecision ==
    Dict([action    |-> Str("ready"),
          question  |-> Null,
          reasoning |-> Str("Fallback - proceeding with available information")])

\* the fallback value of the request being served
FallbackValue ==
    IF request.endpoint = "continue" THEN FallbackDecision
    ELSE FallbackPlan(request.goal)

\* C11: a /continue or /plan request calls the oracle at most once and never
\* again: after a failed call the request holds its fallback value and
\* answers with it, the count of calls still 1; a /clarify request calls the
\* oracle never and answers with exactly one fixed question.
C11_OneOracleCallNoRetry ==
    /\ oracle_calls <= 1
    /\ OracleCallFailed => oracle_calls = 1
    /\ (OracleCallFailed /\ pc \in {"respond", "done"}) => outcome = FallbackValue
    /\ (OracleCallFailed /\ pc = "done") =>
           /\ response.status = 200
           /\ IsDict(response.body)
           /\ \A key \in DOMAIN FallbackValue.m :
                  /\ key \in DOMAIN response.body.m
                  /\ response.body.m[key] = FallbackValue.m[key]
    /\ request.endpoint = "clarify" => oracle_calls = 0
    /\ (request.endpoint = "clarify" /\ pc = "done") =>
           /\ response.status = 200
           /\ DOMAIN response.body.m = {"questions"}
           /\ Len(response.body.m.questions.xs) = 1
           /\ response = clarify

\* C11's case: the oracle raised, and the request has answered after that
\* one call
C11_Witness ==
    /\ request.endpoint \in {"continue", "plan"}
    /\ pc = "done"
    /\ oracle.kind = "raise"
    /\ oracle_calls = 1
    /\ response.status = 200

\* call_gemini has returned for the request being served
CallGeminiReturned ==
    /\ request.endpoint \in {"continue", "plan"}
    /\ pc \in {"decide", "respond", "done"}

\* C12: call_gemini returns exactly what extract_json produced from the
\* response text, a falsy value ({}, [], 0, false, "") included, and returns
\* None only when the oracle call raised or extract_json found no value.
C12_ReturnsExtractedValue ==
    CallGeminiReturned =>
        /\ oracle.kind = "text" => cg_data = oracle.extracted
        /\ oracle.kind = "raise" => cg_data = Null
        /\ cg_data = Null => (oracle.kind = "raise" \/ oracle.extracted = Null)

-----------------------------------------------------------------------------
(* Claims about extract_json, checked under SpecExtract *)

\* C7: for every text that holds a single valid JSON object, fenced or not,
\* with prose around it, extract_json returns that object exactly, also when
\* the prose holds braces or brackets or a string of the object holds braces.
C7_ExtractsTheObject ==
    stage = "done" => ext_result = ext_object

-----------------------------------------------------------------------------
(* Claims about _parse_minutes, checked under SpecMinutes *)

\* the result _parse_minutes must give for the inputs the claim names
Expected(value, minutes) == (min_value = value) => (min_result = minutes)

\* C8: _parse_minutes(x) is at least 1 and survives re-formatting:
\* _parse_minutes(_format_hm(_parse_minutes(x))) = _parse_minutes(x), for x
\* None, an integer or a string; "2h 30m" is 150, "90" is 90, "1.5" is 1, None
\* is 60 and "garbage" is 60.
C8_ParseFormatParse ==
    /\ stage # "call" =>
          /\ min_result >= 1
          /\ Expected(Str("2h 30m"), 150)
          /\ Expected(Str("90"), 90)
          /\ Expected(Str("1.5"), 1)
          /\ Expected(Null, 60)
          /\ Expected(Str("garbage"), 60)
    /\ stage = "done" => min_again = min_result

\* C8's case: a string giving hours and minutes has made the round trip
C8_Witness ==
    /\ stage = "done"
    /\ min_value = Str("2h 30m")
    /\ min_text = "2h 30m"
    /\ min_again = 150

\* no character of the string is a digit
NoDigits(s) == \A i \in 1..Len(s) : ~IsDigit(Ch(s, i))

\* C13: for every string without a digit, with or without the letters h and
\* m ("garbage", "hmm", "half an hour"), _parse_minutes returns the default of
\* 60 minutes.
C13_NoDigitsGivesDefault ==
    (stage # "call" /\ IsStr(min_value) /\ NoDigits(min_value.s)) => min_result = 60

====
